---- MODULE Spec2Model ----
(***************************************************************************)
(* Model of the signal engine of the Ashare repository:                    *)
(*   TrendStrategy.generate_signals  (ashare/strategies/trend_strategy.py) *)
(*   MAWyckoffStrategy.run           (ashare/strategies/ma_wyckoff_model.py)*)
(*                                                                         *)
(* A DataFrame is a sequence of rows (records).  A missing value (np.nan,  *)
(* or a column that is absent) is the number NaN; every comparison with    *)
(* NaN is FALSE, as in pandas/numpy.                                       *)
(*                                                                         *)
(* Units (all values are integers):                                        *)
(*   prices, moving averages, ATR        ticks                             *)
(*   index_ret, pct_chg, ret_N, ma20_bias basis points (1e-4)              *)
(*   vol_ratio, chip_score, multipliers  hundredths                        *)
(*   wyckoff_score, engulf_score         tenths                            *)
(*   quality_score, thresholds           thousandths                       *)
(*   final_cap                           ten-thousandths                   *)
(* Products of a multiplier and a price are compared by cross              *)
(* multiplication, so that no rounding takes place.                        *)
(*                                                                         *)
(* The window lengths of MAWyckoffStrategy are constructor arguments       *)
(* (defaults 5/20/200/20/160/80/60 and the min_periods 10/20 that go with  *)
(* them).  The model instantiates them with short windows that keep their  *)
(* order (ma_short < ma_long < long_ma_window, box_len_min <               *)
(* structure_window < long_ma_window), so that every phase and event is    *)
(* reached on series of a handful of bars.  The windows that              *)
(* trend_strategy.py hard-codes (5 and 20) keep their value.               *)
(***************************************************************************)
EXTENDS Integers, Sequences, FiniteSets, TLC

VARIABLES
    fam,      \* the family the input frame is drawn from
    params,   \* self.params: the strategy configuration
    lib,      \* the installed pandas: whether pct_change pads missing closes
    chip_table, \* the rows of the chip table in the database
    df,       \* the input DataFrame handed to generate_signals (rows in arrival order)
    out,      \* what generate_signals returned: NoResult, Raised or a frame of records
    sched,    \* the open-monitor scheduler: wall clock, calendar, last trigger
    quotes,   \* OpenMonitorMarketData.fetch_quotes: the feed and the frame returned
    registry  \* the strategy factory: _STRATEGY_REGISTRY and the last create_strategy

vars == <<fam, params, lib, chip_table, df, out, sched, quotes, registry>>

-----------------------------------------------------------------------------
(* Bounds of the model *)

MaxBarsGate == 2
MaxBarsEnv == 5
MaxBarsWyck == 5
MaxBarsBatch == 2
MaxBarsPhase == 5
MaxBarsFactor == 2
MaxChipRows == 2

(* MAWyckoffStrategy.__init__ windows, instantiated short (see above) *)
ma_short == 2
ma_long == 3
long_ma_window == 4
long_slope_window == 1
structure_window == 3
box_len_min == 2
vol_confirm_window == 3
VolSumMinPeriods == 1
VolShortWindow == 2
VolShortMinPeriods == 1
VolLongMinPeriods == 2

-----------------------------------------------------------------------------
(* Missing values and NaN-aware comparisons *)

NaN == -1000000

IsNa(x) == x = NaN
NotNa(x) == x # NaN

Lt(a, b) == NotNa(a) /\ NotNa(b) /\ a < b
Le(a, b) == NotNa(a) /\ NotNa(b) /\ a <= b
Gt(a, b) == NotNa(a) /\ NotNa(b) /\ a > b
Ge(a, b) == NotNa(a) /\ NotNa(b) /\ a >= b

Abs(x) == IF x < 0 THEN -x ELSE x
Sub(a, b) == IF IsNa(a) \/ IsNa(b) THEN NaN ELSE a - b
FillNa(x, d) == IF IsNa(x) THEN d ELSE x

RECURSIVE SumFn(_, _)
SumFn(f, S) ==
    IF S = {} THEN 0
    ELSE LET j == CHOOSE x \in S : TRUE IN f[j] + SumFn(f, S \ {j})

MaxFn(f, S) == CHOOSE v \in {f[j] : j \in S} : \A j \in S : f[j] <= v
MinFn(f, S) == CHOOSE v \in {f[j] : j \in S} : \A j \in S : f[j] >= v

(* A frame built row by row is kept as an explicit tuple of rows *)
Rows(f) == f \o <<>>

-----------------------------------------------------------------------------
(* Program constants *)

(* MAWyckoffStrategy.__init__ *)
box_volatility_cap == 25        \* 0.25, hundredths
vol_contract_ratio == 85        \* 0.85, hundredths
vol_imbalance_threshold == 120  \* 1.2, hundredths
breakout_pct == 10              \* 0.01, thousandths
reclaim_tol == 3                \* 0.003, thousandths
vol_spike_mult == 130           \* 1.3, hundredths
death_cross_atr_buffer == 2     \* 0.2, tenths

(* TrendStrategy parameter defaults and literals *)
pullback_atr_mult == 60         \* 0.6, hundredths
vsa_vol_mult == 105             \* 1.05, hundredths
stop_buffer_atr == 30           \* 0.3, hundredths
min_stop_pct == 5               \* 0.005, thousandths
trailing_atr_mult == 300        \* 3.0, hundredths
stag_vol == 200                 \* 2.0, hundredths
stag_atr_mult == 20             \* 0.2, hundredths
stag_bias_atr_mult == 250       \* 2.5, hundredths
VolMaWindow == 5
RollingHighWindow == 20
RsWindow == 5
IndexRetWindow == 5
w_wyckoff == 50                 \* 0.5, hundredths
w_engulf == 30                  \* 0.3, hundredths
default_thresh == -3000         \* -3.0, thousandths
weak_env_thresh == 0            \* 0.0, thousandths
weak_env_index_ret == -200      \* -0.02, basis points
base_cap == 5000                \* 0.5, ten-thousandths
cap_max == 8000                 \* 0.8, ten-thousandths
cap_min == 0
DefaultMaxStockPrice == 999999

-----------------------------------------------------------------------------
(* Frames *)

NoResult == [kind |-> "none"]
Raised == [kind |-> "raised"]
(* The scheduler, the quote fetcher and the factory are separate programs: *)
(* while the strategy pipeline runs they have not been started.            *)
NotStarted == [kind |-> "idle"]
Frame(rows) == [kind |-> "frame", rows |-> rows]

CodeRank(c) == IF c = "A" THEN 1 ELSE 2

(* sort_values(["code", "date"]) key order *)
RowLess(r1, r2) ==
    \/ CodeRank(r1.code) < CodeRank(r2.code)
    \/ r1.code = r2.code /\ r1.date < r2.date

(* df.sort_values(["code", "date"]) on a frame whose (code, date) are unique *)
SortRows(s) ==
    Rows([k \in 1..Len(s) |->
            s[CHOOSE i \in 1..Len(s) :
                Cardinality({j \in 1..Len(s) : RowLess(s[j], s[i])}) = k - 1]])

(* The rows of row i's code at or before i: groupby("code") on the sorted frame *)
GroupUpTo(P, i) == {j \in 1..i : P[j].code = P[i].code}

(* The last k rows of row i's code ending at i: the rows of a rolling(k) window *)
Win(P, i, k) == {j \in GroupUpTo(P, i) : j > i - k}

(* The observations of a rolling window: NaN is no observation *)
Obs(col, P, i, k) == {j \in Win(P, i, k) : NotNa(col[j])}

(* x.rolling(k, min_periods = minp).sum() *)
RollSum(col, P, i, k, minp) ==
    LET o == Obs(col, P, i, k) IN IF Cardinality(o) < minp THEN NaN ELSE SumFn(col, o)

(* x.rolling(k, min_periods = minp).max() *)
RollMax(col, P, i, k, minp) ==
    LET o == Obs(col, P, i, k) IN IF Cardinality(o) < minp THEN NaN ELSE MaxFn(col, o)

(* x.rolling(k, min_periods = minp).min() *)
RollMin(col, P, i, k, minp) ==
    LET o == Obs(col, P, i, k) IN IF Cardinality(o) < minp THEN NaN ELSE MinFn(col, o)

(* The number of observations the rolling mean divides by *)
RollCnt(col, P, i, k) == Cardinality(Obs(col, P, i, k))

(* groupby("code")[c].shift(n): the value n rows earlier in the same code *)
Shift(col, P, i, n) ==
    IF i - n >= 1 /\ P[i - n].code = P[i].code THEN col[i - n] ELSE NaN

-----------------------------------------------------------------------------
(* TrendStrategy._prepare_data *)

(* The close pct_change divides: with fill_method = "pad" (the default of   *)
(* the pandas releases that still fill) a missing close is replaced by the  *)
(* last close of the code before the ratio is taken; without it, it is not. *)
FilledClose(S, i, pad) ==
    IF ~pad \/ NotNa(S[i].close) THEN S[i].close
    ELSE LET seen == {j \in GroupUpTo(S, i) : NotNa(S[j].close)}
         IN  IF seen = {} THEN NaN
             ELSE S[CHOOSE j \in seen : \A k \in seen : k <= j].close

(* close / previous close - 1, in basis points; the closes the model draws  *)
(* are non-zero and make the ratio a whole number of basis points           *)
PctChg(c, pc) ==
    IF IsNa(c) \/ IsNa(pc) \/ pc = 0 THEN NaN ELSE ((c - pc) * 10000) \div pc

PrepareData(frame, pad) ==
    LET S == SortRows(frame)
        ma5col == [j \in 1..Len(S) |-> S[j].ma5]
        ma20col == [j \in 1..Len(S) |-> S[j].ma20]
        volcol == [j \in 1..Len(S) |-> S[j].volume]
        filled == [j \in 1..Len(S) |-> FilledClose(S, j, pad)]
    IN  Rows([i \in 1..Len(S) |->
                [prev_ma5 |-> Shift(ma5col, S, i, 1),
                 prev_ma20 |-> Shift(ma20col, S, i, 1),
                 prev_vol |-> Shift(volcol, S, i, 1),
                 pct_chg |-> PctChg(filled[i], Shift(filled, S, i, 1))] @@ S[i]])

-----------------------------------------------------------------------------
(* Columns of a frame *)

CloseCol(P) == [j \in 1..Len(P) |-> P[j].close]
HighCol(P) == [j \in 1..Len(P) |-> P[j].high]
LowCol(P) == [j \in 1..Len(P) |-> P[j].low]
VolumeCol(P) == [j \in 1..Len(P) |-> P[j].volume]
IndexRetCol(P) == [j \in 1..Len(P) |-> P[j].index_ret]

-----------------------------------------------------------------------------
(* MAWyckoffStrategy.run.  The rows of one code are contiguous and in date  *)
(* order after _prepare_data, so run(group) for every group is a pass over  *)
(* the frame P with windows that stay inside the code of row i.            *)

(* n / d > 0 and n / d < 0 for a denominator with zero replaced by NaN *)
QuotPos(n, d) == NotNa(n) /\ NotNa(d) /\ d # 0 /\ ((n > 0 /\ d > 0) \/ (n < 0 /\ d < 0))
QuotNeg(n, d) == NotNa(n) /\ NotNa(d) /\ d # 0 /\ ((n > 0 /\ d < 0) \/ (n < 0 /\ d > 0))

(* n / d <= k/100, n / d < k/100 and n / d >= k/100, zero d replaced by NaN *)
QuotLe(n, d, k) ==
    /\ NotNa(n) /\ NotNa(d) /\ d # 0
    /\ IF d > 0 THEN 100 * n <= k * d ELSE 100 * n >= k * d
QuotLt(n, d, k) ==
    /\ NotNa(n) /\ NotNa(d) /\ d # 0
    /\ IF d > 0 THEN 100 * n < k * d ELSE 100 * n > k * d
QuotGe(n, d, k) ==
    /\ NotNa(n) /\ NotNa(d) /\ d # 0
    /\ IF d > 0 THEN 100 * n >= k * d ELSE 100 * n <= k * d

(* Sum of the closes of the rolling(window) mean; NaN before `window` bars *)
MaSum(P, i, window) == RollSum(CloseCol(P), P, i, window, window)

(* The same one row earlier in the code: the mean shifted by n *)
MaSumShift(P, i, window, n) ==
    IF i - n >= 1 /\ P[i - n].code = P[i].code THEN MaSum(P, i - n, window) ELSE NaN

(* volume.where(close >= open, 0.0) and volume.where(close < open, 0.0) *)
VolUpCol(P) == [j \in 1..Len(P) |-> IF Ge(P[j].close, P[j].open) THEN P[j].volume ELSE 0]
VolDownCol(P) == [j \in 1..Len(P) |-> IF Lt(P[j].close, P[j].open) THEN P[j].volume ELSE 0]

(* The rolling columns run() adds to row i.  A rolling mean is kept as its  *)
(* sum (and its count where min_periods is below the window).              *)
RollingColumns(P, i) ==
    [ma_short_sum |-> MaSum(P, i, ma_short),
     ma_long_sum |-> MaSum(P, i, ma_long),
     prev_short_sum |-> MaSumShift(P, i, ma_short, 1),
     prev_long_sum |-> MaSumShift(P, i, ma_long, 1),
     ma_longterm_sum |-> MaSum(P, i, long_ma_window),
     long_ma_shift_sum |-> MaSumShift(P, i, long_ma_window, long_slope_window),
     box_high |-> RollMax(HighCol(P), P, i, structure_window, box_len_min),
     box_low |-> RollMin(LowCol(P), P, i, structure_window, box_len_min),
     up_sum |-> RollSum(VolUpCol(P), P, i, vol_confirm_window, VolSumMinPeriods),
     down_sum |-> RollSum(VolDownCol(P), P, i, vol_confirm_window, VolSumMinPeriods),
     vol_short_sum |-> RollSum(VolumeCol(P), P, i, VolShortWindow, VolShortMinPeriods),
     vol_short_cnt |-> RollCnt(VolumeCol(P), P, i, VolShortWindow),
     vol_long_sum |-> RollSum(VolumeCol(P), P, i, vol_confirm_window, VolLongMinPeriods),
     vol_long_cnt |-> RollCnt(VolumeCol(P), P, i, vol_confirm_window)] @@ P[i]

(* long_ma_slope = (ma_longterm - shift) / shift.replace(0, nan) > 0, < 0 *)
long_trend_up(r) ==
    QuotPos(Sub(r.ma_longterm_sum, r.long_ma_shift_sum), r.long_ma_shift_sum)
long_trend_down(r) ==
    QuotNeg(Sub(r.ma_longterm_sum, r.long_ma_shift_sum), r.long_ma_shift_sum)

(* box_range_pct <= box_volatility_cap *)
box_ok(r) == QuotLe(Sub(r.box_high, r.box_low), r.box_low, box_volatility_cap)

(* vol_short <= vol_long * vol_contract_ratio *)
vol_contract(r) ==
    /\ NotNa(r.vol_short_sum) /\ NotNa(r.vol_long_sum)
    /\ 100 * r.vol_short_sum * r.vol_long_cnt
         <= vol_contract_ratio * r.vol_long_sum * r.vol_short_cnt

(* close < ma_longterm and close > ma_longterm *)
BelowLongTerm(r) ==
    NotNa(r.close) /\ NotNa(r.ma_longterm_sum)
    /\ long_ma_window * r.close < r.ma_longterm_sum
AboveLongTerm(r) ==
    NotNa(r.close) /\ NotNa(r.ma_longterm_sum)
    /\ long_ma_window * r.close > r.ma_longterm_sum

acc_base(r) ==
    /\ box_ok(r)
    /\ (long_trend_down(r) \/ BelowLongTerm(r))
    /\ QuotLe(r.down_sum, r.up_sum, vol_imbalance_threshold)
    /\ vol_contract(r)

(* dis_base without its long-trend condition (sensitivity variant, C8) *)
dis_base_no_trend(r) ==
    /\ box_ok(r)
    /\ QuotGe(r.down_sum, r.up_sum, vol_imbalance_threshold)

dis_base(r) ==
    /\ box_ok(r)
    /\ (long_trend_up(r) \/ AboveLongTerm(r))
    /\ QuotGe(r.down_sum, r.up_sum, vol_imbalance_threshold)

(* df["wyckoff_phase"]: four assignments in order, a later one overwriting *)
WyckoffPhase(r) ==
    LET p0 == "NONE"
        p1 == IF acc_base(r) THEN "ACCUMULATION" ELSE p0
        p2 == IF dis_base(r) THEN "DISTRIBUTION" ELSE p1
        p3 == IF long_trend_up(r) /\ ~box_ok(r) THEN "TREND_UP" ELSE p2
    IN  IF long_trend_down(r) /\ ~box_ok(r) THEN "TREND_DOWN" ELSE p3

(* ma_short vs ma_long of the classifier (means of close) *)
MeanLt(s1, n1, s2, n2) == NotNa(s1) /\ NotNa(s2) /\ s1 * n2 < s2 * n1
MeanGt(s1, n1, s2, n2) == NotNa(s1) /\ NotNa(s2) /\ s1 * n2 > s2 * n1
MeanLe(s1, n1, s2, n2) == NotNa(s1) /\ NotNa(s2) /\ s1 * n2 <= s2 * n1
MeanGe(s1, n1, s2, n2) == NotNa(s1) /\ NotNa(s2) /\ s1 * n2 >= s2 * n1

trend_bullish(r) == MeanGt(r.ma_short_sum, ma_short, r.ma_long_sum, ma_long)

golden_cross(r) ==
    /\ MeanGt(r.ma_short_sum, ma_short, r.ma_long_sum, ma_long)
    /\ MeanLe(r.prev_short_sum, ma_short, r.prev_long_sum, ma_long)

(* ma_short < ma_long - 0.2 * atr14, atr14 with NaN filled by 0 *)
BelowLongByBuffer(r) ==
    NotNa(r.ma_short_sum) /\ NotNa(r.ma_long_sum)
    /\ 10 * r.ma_short_sum * ma_long
         < 10 * r.ma_long_sum * ma_short
           - death_cross_atr_buffer * FillNa(r.atr14, 0) * ma_short * ma_long

death_cross(r) ==
    /\ MeanLt(r.ma_short_sum, ma_short, r.ma_long_sum, ma_long)
    /\ MeanGe(r.prev_short_sum, ma_short, r.prev_long_sum, ma_long)
    /\ BelowLongByBuffer(r)

(* Events *)
vol_spike(r) ==
    NotNa(r.volume) /\ NotNa(r.vol_long_sum)
    /\ 100 * r.volume * r.vol_long_cnt >= vol_spike_mult * r.vol_long_sum
(* break_up with the margin under the box edge, as a negative breakout_pct *)
(* gives (sensitivity variant, C24)                                        *)
break_up_inside(r) ==
    NotNa(r.high) /\ NotNa(r.box_high)
    /\ 1000 * r.high > r.box_high * (1000 - breakout_pct)

break_up(r) ==
    NotNa(r.high) /\ NotNa(r.box_high)
    /\ 1000 * r.high > r.box_high * (1000 + breakout_pct)
break_down(r) ==
    NotNa(r.low) /\ NotNa(r.box_low)
    /\ 1000 * r.low < r.box_low * (1000 - breakout_pct)
reclaim_up(r) ==
    NotNa(r.close) /\ NotNa(r.box_high)
    /\ 1000 * r.close <= r.box_high * (1000 + reclaim_tol)
reclaim_down(r) ==
    NotNa(r.close) /\ NotNa(r.box_low)
    /\ 1000 * r.close >= r.box_low * (1000 - reclaim_tol)

event_spring(r) == break_down(r) /\ reclaim_down(r) /\ vol_spike(r)
event_upthrust(r) == break_up(r) /\ reclaim_up(r) /\ vol_spike(r)
event_sos(r) == break_up(r) /\ ~reclaim_up(r) /\ vol_spike(r)
event_sow(r) == break_down(r) /\ ~reclaim_down(r) /\ vol_spike(r)

(* df["wyckoff_event"]: four assignments in order, a later one overwriting *)
WyckoffEvent(r) ==
    LET e0 == ""
        e1 == IF event_spring(r) THEN "SPRING" ELSE e0
        e2 == IF event_upthrust(r) THEN "UPTHRUST" ELSE e1
        e3 == IF event_sos(r) THEN "SOS" ELSE e2
    IN  IF event_sow(r) THEN "SOW" ELSE e3

(* WYCKOFF_SCORE_MAP, in tenths; build_factors maps the action through it *)
WYCKOFF_SCORE_MAP(a) ==
    CASE a = "BUY_STRONG" -> 20
      [] a = "BUY_LIGHT" -> 10
      [] a = "REDUCE" -> -10
      [] a = "SELL" -> -20
      [] OTHER -> 0

(* signal_reduce = bearish_divergence | efi_weakness.  The two columns come *)
(* from WyckoffAnalyzer (divergence detection, EFI z-score); the bar       *)
(* carries what it computed.                                               *)
signal_reduce(r) == r.bearish_divergence \/ r.efi_weakness

(* is_confirmed_bottom = has_recent_bull_div | has_recent_efi_strength *)
is_confirmed_bottom(r) == r.has_recent_bull_div \/ r.has_recent_efi_strength

(* The order of the superseded first condition list, REDUCE ahead of the *)
(* buys (sensitivity variant, C16)                                       *)
ActionReduceFirst(r, phase) ==
    IF death_cross(r) THEN "SELL"
    ELSE IF trend_bullish(r) /\ signal_reduce(r) THEN "REDUCE"
    ELSE IF phase = "DISTRIBUTION" /\ event_sow(r) THEN "SELL"
    ELSE IF phase = "DISTRIBUTION" /\ event_upthrust(r) THEN "REDUCE"
    ELSE IF phase = "ACCUMULATION" /\ event_spring(r) THEN "BUY_STRONG"
    ELSE IF phase = "ACCUMULATION" /\ event_sos(r) THEN "BUY_LIGHT"
    ELSE IF golden_cross(r) /\ is_confirmed_bottom(r) THEN "BUY_STRONG"
    ELSE IF golden_cross(r) THEN "BUY_LIGHT"
    ELSE "HOLD"

(* df["action"] = np.select([...], [...], default = HOLD): the first true *)
(* condition of the list decides                                          *)
Action(r, phase) ==
    IF death_cross(r) THEN "SELL"
    ELSE IF phase = "DISTRIBUTION" /\ event_sow(r) THEN "SELL"
    ELSE IF phase = "DISTRIBUTION" /\ event_upthrust(r) THEN "REDUCE"
    ELSE IF phase = "ACCUMULATION" /\ event_spring(r) THEN "BUY_STRONG"
    ELSE IF phase = "ACCUMULATION" /\ event_sos(r) THEN "BUY_LIGHT"
    ELSE IF golden_cross(r) /\ is_confirmed_bottom(r) THEN "BUY_STRONG"
    ELSE IF golden_cross(r) THEN "BUY_LIGHT"
    ELSE IF trend_bullish(r) /\ signal_reduce(r) THEN "REDUCE"
    ELSE "HOLD"

WyckoffRow(P, i) ==
    LET r == RollingColumns(P, i)
    IN  [wyckoff_phase |-> WyckoffPhase(r),
         wyckoff_event |-> WyckoffEvent(r),
         action |-> Action(r, WyckoffPhase(r)),
         golden_cross |-> golden_cross(r),
         death_cross |-> death_cross(r),
         trend_bullish |-> trend_bullish(r)] @@ r

(* The frame after step 2 of generate_signals: run() on every code's group. *)
RunWyckoff(P) == Rows([i \in 1..Len(P) |-> WyckoffRow(P, i)])

-----------------------------------------------------------------------------
(* TrendStrategy._calc_hard_gate *)

(* BaseStrategy._as_bool_series: a missing flag is False *)
AsBool(x) == NotNa(x) /\ x # 0

(* fillna("").astype(str).str.upper() on the values the model draws *)
Upper(s) ==
    CASE s = "stop" -> "STOP"
      [] s = "allow_none" -> "ALLOW_NONE"
      [] s = "<NA>" -> ""
      [] OTHER -> s

MissingCore(r) == IsNa(r.close) \/ IsNa(r.ma5) \/ IsNa(r.ma20)
OneWord(r) == AsBool(r.one_word_limit_up)
EnvGate(r) == Upper(r.env_gate_action) \in {"STOP", "ALLOW_NONE"}
LowLiquidity(r, prm) ==
    IF prm.min_daily_amount > 0
    THEN IsNa(r.amount) \/ r.amount < prm.min_daily_amount
    ELSE FALSE

HardGate(r, prm) == MissingCore(r) \/ OneWord(r) \/ EnvGate(r) \/ LowLiquidity(r, prm)

-----------------------------------------------------------------------------
(* TrendStrategy._calc_base_signals, for row i of the frame P *)

trend_ok(r) == Gt(r.close, r.ma250) /\ Gt(r.ma20, r.ma250)
(* cross_up with a strict comparison on the previous bar (sensitivity variant, C9) *)
cross_up_strict(r) == Gt(r.ma5, r.ma20) /\ Lt(r.prev_ma5, r.prev_ma20)

cross_up(r) == Gt(r.ma5, r.ma20) /\ Le(r.prev_ma5, r.prev_ma20)
buy_cross(r) == trend_ok(r) /\ cross_up(r)
atr_ok(r) == NotNa(r.atr14) /\ r.atr14 > 0
dist_to_ma20(r) == IF IsNa(r.close) \/ IsNa(r.ma20) THEN NaN ELSE Abs(r.close - r.ma20)

(* vol_ma5 * 5 *)
VolMa5Sum(P, i) == RollSum(VolumeCol(P), P, i, VolMaWindow, VolMaWindow)

(* volume < vol_ma5 * 1.05 *)
vol_vsa_ok(P, i) ==
    NotNa(P[i].volume) /\ NotNa(VolMa5Sum(P, i))
    /\ 100 * P[i].volume * VolMaWindow < vsa_vol_mult * VolMa5Sum(P, i)

buy_pullback(P, i) ==
    LET r == P[i]
    IN  /\ trend_ok(r)
        /\ atr_ok(r)
        /\ NotNa(dist_to_ma20(r)) /\ 100 * dist_to_ma20(r) <= pullback_atr_mult * r.atr14
        /\ Gt(r.ma5, r.prev_ma5)
        /\ vol_vsa_ok(P, i)

base_buy(P, i) == buy_cross(P[i]) \/ buy_pullback(P, i)

(* The stop without its atr_ok condition (sensitivity variant, C20) *)
hard_stop_no_atr(r) ==
    /\ NotNa(r.close) /\ NotNa(r.ma20) /\ NotNa(r.atr14)
    /\ 1000 * r.close < 1000 * r.ma20 - (10 * stop_buffer_atr * r.atr14 + min_stop_pct * r.ma20)

(* atr_ok & (close < ma20 - (stop_buffer_atr * atr14 + ma20 * 0.005)) *)
hard_stop(r) ==
    /\ atr_ok(r)
    /\ NotNa(r.close) /\ NotNa(r.ma20)
    /\ 1000 * r.close < 1000 * r.ma20 - (10 * stop_buffer_atr * r.atr14 + min_stop_pct * r.ma20)

rolling_high_20(P, i) == RollMax(CloseCol(P), P, i, RollingHighWindow, RollingHighWindow)

trailing_stop(P, i) ==
    /\ atr_ok(P[i])
    /\ NotNa(P[i].close) /\ NotNa(rolling_high_20(P, i))
    /\ 100 * P[i].close < 100 * rolling_high_20(P, i) - trailing_atr_mult * P[i].atr14

dead_cross(r) == Lt(r.ma5, r.ma20) /\ Ge(r.prev_ma5, r.prev_ma20)

stagnation(r) ==
    /\ Ge(r.vol_ratio, stag_vol)
    /\ NotNa(r.pct_chg) /\ NotNa(r.close) /\ NotNa(r.atr14)
    /\ 100 * Abs(r.pct_chg) * r.close < 10000 * stag_atr_mult * r.atr14
    /\ NotNa(dist_to_ma20(r)) /\ 100 * dist_to_ma20(r) > stag_bias_atr_mult * r.atr14

(* base_sell without the dead cross (sensitivity variant, C3) *)
base_sell_no_cross(P, i) ==
    stagnation(P[i]) \/ hard_stop(P[i]) \/ trailing_stop(P, i)

base_sell(P, i) ==
    dead_cross(P[i]) \/ stagnation(P[i]) \/ hard_stop(P[i]) \/ trailing_stop(P, i)

base_reduce(P, i) ==
    LET r == P[i]
    IN  Lt(r.ma5, r.ma20) /\ Lt(r.close, r.ma20) /\ ~dead_cross(r) /\ ~hard_stop(r)

-----------------------------------------------------------------------------
(* TrendStrategy._fetch_chip_data and the merge of step 4 *)

LatestDate(frame) ==
    CHOOSE d \in {frame[j].date : j \in 1..Len(frame)} :
        \A j \in 1..Len(frame) : frame[j].date <= d

(* The input frame carries a chip_score column of its own *)
HasChipColumn(P) == \E j \in 1..Len(P) : NotNa(P[j].chip_score)

Matches(r, chip) == {k \in 1..Len(chip) : chip[k].date = r.date /\ chip[k].code = r.code}

RECURSIVE MergeFrom(_, _, _, _)
(* The rows that rows i.. of P give in df.merge(chip_df, on = ["date", "code"], *)
(* how = "left"): one per matching chip row, one with NaN when none matches.    *)
(* ownCol: both frames have a chip_score column, pandas renames them           *)
(* chip_score_x / chip_score_y and no chip_score column is left.               *)
MergeFrom(P, i, chip, ownCol) ==
    IF i > Len(P) THEN <<>>
    ELSE LET m == Matches(P[i], chip)
             one(k) == [P[i] EXCEPT !.chip_score = IF ownCol THEN NaN ELSE chip[k].chip_score]
             rows == IF m = {} THEN << [P[i] EXCEPT !.chip_score = NaN] >>
                     ELSE [x \in 1..Cardinality(m) |->
                             one(CHOOSE k \in m : Cardinality({k2 \in m : k2 < k}) = x - 1)]
         IN  rows \o MergeFrom(P, i + 1, chip, ownCol)

(* SELECT ... WHERE sig_date = :d AND code IN :codes with d the latest date *)
(* of the whole frame and codes the codes of the frame                      *)
FetchChipData(table, frame) ==
    LET hit(row) == /\ row.date = LatestDate(frame)
                    /\ \E j \in 1..Len(frame) : frame[j].code = row.code
    IN  IF frame = <<>> THEN <<>> ELSE SelectSeq(table, hit)

(* chip_df empty (no row, or the query raised and was logged): no merge *)
MergeChip(P, chip) ==
    IF chip = <<>> THEN P ELSE MergeFrom(P, 1, chip, HasChipColumn(P))

-----------------------------------------------------------------------------
(* TrendStrategy._combine_signals, for row i of the merged frame M; the     *)
(* masks hard_gate and base[...] were computed on the frame W before the    *)
(* merge and are used by position.                                         *)

(* The select with sell ahead of the hard gate (sensitivity variant, C4) *)
InitialSignalSellFirst(hg, sell, reduce, buy) ==
    IF sell THEN "SELL"
    ELSE IF hg THEN "HOLD"
    ELSE IF reduce THEN "REDUCE"
    ELSE IF buy THEN "BUY"
    ELSE "HOLD"

(* The select with buy ahead of reduce (sensitivity variant, C22) *)
InitialSignalBuyFirst(hg, sell, reduce, buy) ==
    IF hg THEN "HOLD"
    ELSE IF sell THEN "SELL"
    ELSE IF buy THEN "BUY"
    ELSE IF reduce THEN "REDUCE"
    ELSE "HOLD"

(* np.select([hard_gate, sell, reduce, buy], [...], default = "HOLD") *)
InitialSignal(hg, sell, reduce, buy) ==
    IF hg THEN "HOLD"
    ELSE IF sell THEN "SELL"
    ELSE IF reduce THEN "REDUCE"
    ELSE IF buy THEN "BUY"
    ELSE "HOLD"

(* out["reason"] = "watch"; out.loc[buy & cross_up, "reason"] = "golden cross" *)
InitialReason(buy, cross) == IF buy /\ cross THEN <<"GOLDEN_CROSS">> ELSE <<"WATCH">>

(* rs_daily = pct_chg - index_ret *)
RsDailyCol(M) == [j \in 1..Len(M) |-> Sub(M[j].pct_chg, M[j].index_ret)]
rs_5d(M, i) == RollSum(RsDailyCol(M), M, i, RsWindow, RsWindow)

dist_factor(r) == IF r.wyckoff_phase = "DISTRIBUTION" THEN -3000 ELSE 0
acc_factor(r) == IF r.wyckoff_phase = "ACCUMULATION" THEN 1000 ELSE 0
trend_up_factor(r) == IF r.wyckoff_phase = "TREND_UP" THEN 500 ELSE 0

(* soft["wyckoff"] * w_wyckoff and soft["engulf"] * w_engulf *)
wyckoff_term(r) == FillNa(r.wyckoff_score, 0) * w_wyckoff
engulf_term(r) == FillNa(r.engulf_score, 0) * w_engulf

chip_factor(r) ==
    IF FillNa(r.chip_score, 0) >= 50 THEN 1000
    ELSE IF FillNa(r.chip_score, 0) <= -50 THEN -1000
    ELSE 0

(* The select with the values 1.0 and 0.5, so that the doubled term adds *)
(* 2.0 and 1.0 (sensitivity variant, C18)                               *)
board_factor_halved(r) ==
    IF r.rotation_phase \in {"leader", "leading"} THEN 1000
    ELSE IF r.rotation_phase = "improving" THEN 500
    ELSE 0

(* rotation_phase.fillna("neutral"), then np.select *)
board_factor(r) ==
    IF r.rotation_phase \in {"leader", "leading"} THEN 2000
    ELSE IF r.rotation_phase = "improving" THEN 1000
    ELSE 0

rs_factor(M, i) ==
    IF IsNa(rs_5d(M, i)) THEN 0
    ELSE IF rs_5d(M, i) > 500 THEN 1500
    ELSE IF rs_5d(M, i) > 0 THEN 500
    ELSE -500

is_resilient(r) == Lt(r.index_ret, -50) /\ Gt(r.pct_chg, 0)
resilient_bonus(r) == IF is_resilient(r) THEN 1000 ELSE 0

rsi_factor(r) ==
    IF Gt(r.rsi14, 75) THEN -2000
    ELSE IF Ge(r.rsi14, 40) /\ Le(r.rsi14, 65) THEN 500
    ELSE 0

(* 0 < (close - ma250) / ma250 < 0.15 *)
is_low_base(r) ==
    /\ QuotLt(Sub(r.close, r.ma250), r.ma250, 15)
    /\ QuotPos(Sub(r.close, r.ma250), r.ma250)
is_improving(r) == FillNa(r.rps_50, 0) > FillNa(r.rps_120, 0) + 10

rps_factor(r) ==
    IF FillNa(r.rps_50, 0) >= 90 THEN 2000
    ELSE IF is_low_base(r) /\ is_improving(r) THEN 1500
    ELSE IF is_low_base(r) THEN 500
    ELSE IF FillNa(r.rps_50, 0) < 70 /\ ~is_low_base(r) THEN -2000
    ELSE 0

(* ret_20 / 20 > ret_50 / 50 > ret_120 / 120 > 0 *)
is_accelerating(r) ==
    /\ 5 * FillNa(r.ret_20, 0) > 2 * FillNa(r.ret_50, 0)
    /\ 12 * FillNa(r.ret_50, 0) > 5 * FillNa(r.ret_120, 0)
    /\ FillNa(r.ret_120, 0) > 0
acceleration_bonus(r) ==
    IF is_accelerating(r) /\ FillNa(r.rps_50, 0) > 80 THEN 1000 ELSE 0

chase_penalty(r) == IF FillNa(r.ma20_bias, 0) > 1000 THEN -3000 ELSE 0

(* quality = board_factor * 2.0 + chip_factor + ... + chase_penalty *)
Quality(M, i) ==
    LET r == M[i]
    IN  board_factor(r) * 2 + chip_factor(r) + wyckoff_term(r) + engulf_term(r)
        + rs_factor(M, i) + resilient_bonus(r) + dist_factor(r) + acc_factor(r)
        + trend_up_factor(r) + rsi_factor(r) + rps_factor(r)
        + acceleration_bonus(r) + chase_penalty(r)

(* _add_tag writing the tag over what the row has (sensitivity variant, C23) *)
AddTagReplace(tags, mask, tag) == IF mask THEN <<tag>> ELSE tags

(* _add_tag: append the tag, comma separated, to what the row already has *)
AddTag(tags, mask, tag) == IF mask THEN Append(tags, tag) ELSE tags

RiskTag(r, prm) ==
    LET t0 == <<>>
        t1 == AddTag(t0, IsNa(r.atr14), "DATA_MISSING_ATR")
        t2 == AddTag(t1, IsNa(r.index_ret), "DATA_MISSING_INDEX")
        t3 == AddTag(t2, prm.min_daily_amount > 0 /\ IsNa(r.amount), "DATA_MISSING_AMOUNT")
        t4 == AddTag(t3, prm.min_daily_amount > 0 /\ Lt(r.amount, prm.min_daily_amount),
                     "LOW_LIQUIDITY")
    IN  AddTag(t4, Gt(r.close, prm.max_stock_price), "PRICE_TOO_HIGH")

is_sow(r) == r.wyckoff_phase = "DISTRIBUTION" /\ r.wyckoff_event = "SOW"

(* The override left out (sensitivity variant, C2) *)
OverrideSignalKeep(sow, sig) == sig

(* out.loc[is_sow, "signal"] = "SELL"; out.loc[is_sow, "reason"] = ... *)
OverrideSignal(sow, sig) == IF sow THEN "SELL" ELSE sig
OverrideReason(sow, reason) == IF sow THEN <<"SOW_BREAK">> ELSE reason

(* out.groupby("code")["index_ret"].transform(rolling(5).sum()) *)
index_ret_5d(M, i) == RollSum(IndexRetCol(M), M, i, IndexRetWindow, IndexRetWindow)

(* The threshold switch with the boundary included (sensitivity variant, C6) *)
dynamic_thresh_inclusive(ret5) ==
    IF Le(ret5, weak_env_index_ret) THEN weak_env_thresh ELSE default_thresh

(* np.where(index_ret_5d < -0.02, 0.0, default_thresh) *)
dynamic_thresh(ret5) ==
    IF Lt(ret5, weak_env_index_ret) THEN weak_env_thresh ELSE default_thresh

(* mask_stop with a strict comparison (sensitivity variant, C5) and *)
(* mask_stop not restricted to BUY rows (sensitivity variant, C10)   *)
mask_stop_strict(sig, q, thresh) == sig = "BUY" /\ q < thresh
mask_stop_any(sig, q, thresh) == q <= thresh

(* mask_stop = is_buy & (quality <= dynamic_thresh) *)
mask_stop(sig, q, thresh) == sig = "BUY" /\ q <= thresh

(* out.loc[mask_stop, "signal"] = "WAIT"; out.loc[mask_stop, "reason"] += "|..." *)
(* The gate that also upgrades a BUY it lets through (sensitivity variant, C26) *)
GatedSignalUpgrade(sig, stop) ==
    IF stop THEN "WAIT" ELSE IF sig = "BUY" THEN "BUY_CONFIRM" ELSE sig

GatedSignal(sig, stop) == IF stop THEN "WAIT" ELSE sig
GatedReason(reason, stop) == IF stop THEN Append(reason, "LOW_QUALITY_ENV") ELSE reason

(* (base_cap + quality * 0.1).clip(0.0, 0.8) *)
Clip(x, lo, hi) == IF x < lo THEN lo ELSE IF x > hi THEN hi ELSE x
ClippedCap(q) == Clip(base_cap + q, cap_min, cap_max)

(* The cap not zeroed on non-buy rows (sensitivity variant, C1) *)
FinalCapUnmasked(sig, q) == ClippedCap(q)

(* np.where(signal.isin(["BUY", "BUY_CONFIRM"]), final_cap, 0.0) *)
FinalCap(sig, q) == IF sig \in {"BUY", "BUY_CONFIRM"} THEN ClippedCap(q) ELSE 0

CombineRow(W, M, i, prm) ==
    LET buy == base_buy(W, i)
        sig0 == InitialSignal(HardGate(W[i], prm), base_sell(W, i), base_reduce(W, i), buy)
        reason0 == InitialReason(buy, cross_up(W[i]))
        q == Quality(M, i)
        sow == is_sow(M[i])
        sig1 == OverrideSignal(sow, sig0)
        reason1 == OverrideReason(sow, reason0)
        thresh == dynamic_thresh(index_ret_5d(M, i))
        stop == mask_stop(sig1, q, thresh)
        sig2 == GatedSignal(sig1, stop)
    IN  [signal |-> sig2,
         reason |-> GatedReason(reason1, stop),
         risk_tag |-> RiskTag(M[i], prm),
         quality_score |-> q,
         final_cap |-> FinalCap(sig2, q)] @@ M[i]

(* out["signal"] = signal raises ValueError when the merge changed the      *)
(* number of rows: the masks then no longer have the frame's length        *)
CombineSignals(W, M, prm) ==
    IF Len(M) # Len(W) THEN Raised
    ELSE Frame(Rows([i \in 1..Len(M) |-> CombineRow(W, M, i, prm)]))

-----------------------------------------------------------------------------
(* TrendStrategy.generate_signals *)

GenerateSignalsOf(frame, chip, prm, pad) ==
    LET W == RunWyckoff(PrepareData(frame, pad))
        M == MergeChip(W, chip)
    IN  CombineSignals(W, M, prm)

-----------------------------------------------------------------------------
(* Input frames.  A family is a bounded set of frames: for every date of a  *)
(* code a set of bars to draw from.  Closes are of the form 2^a * 5^b       *)
(* (a, b <= 4) wherever a later bar follows, so that pct_chg is a whole     *)
(* number of basis points.                                                 *)

Base ==
    [code |-> "A", date |-> 1,
     open |-> 100, high |-> 100, low |-> 100, close |-> 100,
     volume |-> 1000, amount |-> 100000,
     ma5 |-> 100, ma20 |-> 100, ma250 |-> 80, atr14 |-> 2, vol_ratio |-> 100,
     one_word_limit_up |-> 0, env_gate_action |-> "",
     index_ret |-> 0, rotation_phase |-> "neutral",
     rsi14 |-> 50, rps_50 |-> NaN, rps_120 |-> NaN,
     ret_20 |-> NaN, ret_50 |-> NaN, ret_120 |-> NaN, ma20_bias |-> 0,
     wyckoff_score |-> NaN, engulf_score |-> NaN, chip_score |-> NaN,
     bearish_divergence |-> FALSE, efi_weakness |-> FALSE,
     has_recent_bull_div |-> FALSE, has_recent_efi_strength |-> FALSE]

(* ma5 / ma20 relations *)
MaRel(b, rel) ==
    CASE rel = "above" -> [b EXCEPT !.ma5 = 101, !.ma20 = 100]
      [] rel = "below" -> [b EXCEPT !.ma5 = 99, !.ma20 = 100]
      [] rel = "high" -> [b EXCEPT !.ma5 = 121, !.ma20 = 120]
      [] OTHER -> [b EXCEPT !.ma5 = 100, !.ma20 = 100]

(* close levels: rising, under the hard stop, a dip short of it, missing *)
CloseLevel(b, lvl) ==
    CASE lvl = "up" -> [b EXCEPT !.open = 100, !.high = 110, !.low = 100, !.close = 110]
      [] lvl = "stop" -> [b EXCEPT !.open = 100, !.high = 100, !.low = 95, !.close = 95]
      [] lvl = "dip" -> [b EXCEPT !.open = 100, !.high = 100, !.low = 99, !.close = 99]
      [] OTHER -> [b EXCEPT !.close = NaN]

(* hard-gate flags *)
Gated(b, g) ==
    CASE g = "one_word" -> [b EXCEPT !.one_word_limit_up = 1]
      [] g = "env" -> [b EXCEPT !.env_gate_action = "stop"]
      [] g = "env_none" -> [b EXCEPT !.env_gate_action = "ALLOW_NONE"]
      [] g = "amount" -> [b EXCEPT !.amount = 10000]
      [] OTHER -> b

(* quality levels: -4.0, -1.5, 0.0, +1.0, +8.5 with everything else as in Base *)
Qual(b, q) ==
    CASE q = "low" -> [b EXCEPT !.rsi14 = 80]
      [] q = "zero" -> [b EXCEPT !.wyckoff_score = 30]
      [] q = "plus" -> [b EXCEPT !.wyckoff_score = 50]
      [] q = "high" -> [b EXCEPT !.wyckoff_score = 200]
      [] OTHER -> b

WithIndex(b, x) == [b EXCEPT !.index_ret = x]

GateBars(d) ==
    IF d = 2
    THEN {Qual(Gated(CloseLevel(MaRel(Base, rel), lvl), g), q) :
            rel \in {"above", "below", "high"}, lvl \in {"up", "stop", "dip", "nan"},
            g \in {"none", "one_word", "env", "amount"}, q \in {"low", "mid", "high"}}
    ELSE {MaRel(Base, rel) : rel \in {"above", "below", "equal"}}

EnvBars(d) ==
    IF d = 4
    THEN {WithIndex(MaRel(Base, rel), x) :
            rel \in {"above", "below"}, x \in {-200, -50, -40, 0}}
    ELSE IF d = 5
    THEN {Qual(WithIndex([Base EXCEPT !.ma5 = m], x), q) :
            m \in {101, 102}, x \in {-50, -40, 0, NaN}, q \in {"low", "mid", "zero", "plus"}}
    ELSE {WithIndex(Base, x) : x \in {-40, 0}}

(* OHLCV shapes of the classifier family *)
Ohlcv(o, h, l, c, v) ==
    [Base EXCEPT !.open = o, !.high = h, !.low = l, !.close = c, !.volume = v,
                 !.ma5 = c, !.ma20 = c, !.ma250 = c - 100]

(* Indicator shapes laid over a bar b whose close is c: a golden cross in an *)
(* up-trend, a drift under ma20, a plain bar                                 *)
Shape(b, sh) ==
    CASE sh = "buy" -> [b EXCEPT !.ma5 = b.close - 5, !.ma20 = b.close - 10]
      [] sh = "reduce" -> [b EXCEPT !.ma5 = b.close + 5, !.ma20 = b.close + 10,
                                    !.atr14 = 50]
      [] sh = "below" -> [b EXCEPT !.ma5 = b.close - 1]
      [] OTHER -> b

WyckBars(d) ==
    IF d = 4
    THEN {Shape(b, sh) :
            b \in {Ohlcv(-100, -100, -125, -125, 1000), Ohlcv(100, 100, 80, 80, 3000),
                   Ohlcv(100, 200, 100, 200, 1000), Ohlcv(100, 100, 50, 50, 1000)},
            sh \in {"plain", "below"}}
    ELSE IF d = 5
    THEN {Gated(Shape(b, sh), g) :
            b \in {Ohlcv(-125, -125, -200, -200, 2000), Ohlcv(80, 100, 80, 100, 1000),
                   Ohlcv(200, 400, 200, 400, 1000), Ohlcv(50, 50, 25, 25, 1000)},
            sh \in {"buy", "reduce", "plain"},
            g \in {"none", "one_word"}}
    ELSE IF d = 3
    THEN {Ohlcv(p, p, p, p, 1000) : p \in {-100, 100}}
         \cup {Shape(Ohlcv(p + 1, p + 1, p, p, 3000), "buy") : p \in {-100, 100}}
    ELSE IF d <= 2
    THEN {Ohlcv(p, p, p, p, 1000) : p \in {-100, 100}}
    ELSE {Ohlcv(100, 100, 100, 100, 1000)}

(* What WyckoffAnalyzer found on the bar: a bearish divergence, a recent *)
(* bullish divergence                                                   *)
Found(b, bear, bull) == [b EXCEPT !.bearish_divergence = bear, !.has_recent_bull_div = bull]

(* The phase family: a fall to a narrow box with the down/up volume ratio *)
(* at or under vol_imbalance_threshold, then a bar leaving or staying in  *)
(* the box; the same below zero, where the box edges can be broken; a     *)
(* slide under the long average on a wide ATR that goes on the next bar.  *)
PhaseBars(d) ==
    IF d = 1 THEN {Ohlcv(p, p, p, p, 1000) : p \in {125, 80, -100}}
    ELSE IF d = 2 THEN {Ohlcv(p, p, p, p, 1000) : p \in {80, -100}}
    ELSE IF d = 3
    THEN {Ohlcv(81, 81, 80, 80, v) : v \in {1000, 1200}}
         \cup {Ohlcv(-99, -99, -100, -100, v) : v \in {1000, 1200}}
    ELSE IF d = 4
    THEN {Ohlcv(80, 80, 80, 80, 500), [Ohlcv(80, 80, 64, 64, 500) EXCEPT !.atr14 = 20]}
         \cup {Ohlcv(-100, -100, -100, -100, v) : v \in {0, 500}}
    ELSE IF d = 5
    THEN {Found(b, bear, bull) :
            b \in {Ohlcv(80, 100, 80, 100, 500), Ohlcv(80, 80, 64, 64, 500),
                   Ohlcv(-100, -100, -100, -100, 1000), Ohlcv(-100, -80, -100, -80, 1000),
                   Ohlcv(-100, -100, -125, -125, 1000), Ohlcv(-100, -99, -100, -99, 1000),
                   Ohlcv(-80, -80, -100, -99, 2000), Ohlcv(64, 64, 40, 40, 500)},
            bear \in BOOLEAN, bull \in BOOLEAN}
    ELSE {Ohlcv(100, 100, 100, 100, 1000)}

(* The factor family: a second bar with the optional indicator fields      *)
(* present at several levels, zero, or missing, or with the close under    *)
(* the stop line and ATR positive, zero, or missing                        *)
FactorBars(d) ==
    IF d = 1
    THEN {MaRel(Base, rel) : rel \in {"equal", "below"}}
    ELSE IF d = 2
    THEN {[Base EXCEPT !.rotation_phase = rot, !.rps_50 = rps, !.ma250 = m, !.rsi14 = rsi] :
            rot \in {"neutral", "leader", "leading", "improving"},
            rps \in {NaN, 60, 95}, m \in {80, 95, 0, NaN}, rsi \in {50, NaN}}
         \cup {[CloseLevel(MaRel(Base, rel), "stop") EXCEPT !.atr14 = a] :
                 rel \in {"above", "below"}, a \in {0, 2, NaN}}
    ELSE {Base}

BatchBars(c, d) == {[MaRel(Base, IF d = 1 THEN "below" ELSE "above") EXCEPT !.code = c]}

Codes(f) == IF f = "batch" THEN {"A", "B"} ELSE {"A"}

MaxBars(f) ==
    CASE f = "gate" -> MaxBarsGate
      [] f = "env" -> MaxBarsEnv
      [] f = "wyck" -> MaxBarsWyck
      [] f = "phase" -> MaxBarsPhase
      [] f = "factor" -> MaxBarsFactor
      [] OTHER -> MaxBarsBatch

BarSet(f, c, d) ==
    CASE f = "gate" -> GateBars(d)
      [] f = "env" -> EnvBars(d)
      [] f = "wyck" -> WyckBars(d)
      [] f = "phase" -> PhaseBars(d)
      [] f = "factor" -> FactorBars(d)
      [] OTHER -> BatchBars(c, d)

HasKey(frame, c, d) == \E j \in 1..Len(frame) : frame[j].code = c /\ frame[j].date = d

(* The dates a new row of code c may carry: the next trading day of the     *)
(* code, or (batch) any day of the window the code has no row for yet      *)
NextDates(f, frame, c) ==
    IF f = "batch"
    THEN {d \in 1..MaxBars(f) : ~HasKey(frame, c, d)}
    ELSE {d \in 1..MaxBars(f) : d = Cardinality({j \in 1..Len(frame) : frame[j].code = c}) + 1}

(* The chip table.  The single-code families hold one row for every date  *)
(* of the code; the batch family holds up to MaxChipRows copies of one row *)
(* of code A, or nothing.                                                  *)
ChipRow(d) == [date |-> d, code |-> "A", chip_score |-> 60]

ChipTables(f) ==
    IF f = "batch"
    THEN {<<>>} \cup {[k \in 1..n |-> ChipRow(d)] : d \in 1..MaxBars(f), n \in 1..MaxChipRows}
    ELSE {[d \in 1..MaxBars(f) |-> ChipRow(d)]}

-----------------------------------------------------------------------------
(* The state machine *)

ParamSet(f) ==
    {[min_daily_amount |-> m, max_stock_price |-> x] :
        m \in IF f = "gate" THEN {0, 50000} ELSE IF f = "factor" THEN {0, 200000} ELSE {0},
        x \in IF f = "factor" THEN {DefaultMaxStockPrice, 90} ELSE {DefaultMaxStockPrice}}

LibSet(f) == {[pct_change_pad |-> p] : p \in IF f = "gate" THEN BOOLEAN ELSE {FALSE}}

InitFam(f) ==
    /\ fam = f
    /\ params \in ParamSet(f)
    /\ lib \in LibSet(f)
    /\ chip_table \in ChipTables(f)
    /\ df = <<>>
    /\ out = NoResult
    /\ sched = NotStarted
    /\ quotes = NotStarted
    /\ registry = NotStarted

InitGate == InitFam("gate")
InitEnv == InitFam("env")
InitWyck == InitFam("wyck")
InitBatch == InitFam("batch")
InitPhase == InitFam("phase")
InitFactor == InitFam("factor")

Init == InitGate \/ InitEnv \/ InitWyck \/ InitBatch

(* The runner loads one more row into the frame it will hand over *)
AppendBar ==
    /\ out = NoResult
    /\ \E c \in Codes(fam) :
         \E d \in NextDates(fam, df, c) :
           \E b \in BarSet(fam, c, d) :
             df' = Append(df, [b EXCEPT !.code = c, !.date = d])
    /\ UNCHANGED <<fam, params, lib, chip_table, out, sched, quotes, registry>>

(* strategy.generate_signals(df); the runner returns before the call when  *)
(* it has loaded no row.  The chip query either answers from the table or  *)
(* raises, in which case _fetch_chip_data logs and returns an empty frame. *)
GenerateSignals ==
    /\ df # <<>>
    /\ \E answered \in BOOLEAN :
         out' = GenerateSignalsOf(df,
                                  IF answered THEN FetchChipData(chip_table, df) ELSE <<>>,
                                  params, lib.pct_change_pad)
    /\ UNCHANGED <<fam, params, lib, chip_table, df, sched, quotes, registry>>

Next == AppendBar \/ GenerateSignals

Spec == Init /\ [][Next]_vars
SpecGate == InitGate /\ [][Next]_vars
SpecEnv == InitEnv /\ [][Next]_vars
SpecWyck == InitWyck /\ [][Next]_vars
SpecBatch == InitBatch /\ [][Next]_vars
SpecPhase == InitPhase /\ [][Next]_vars
SpecFactor == InitFactor /\ [][Next]_vars

-----------------------------------------------------------------------------
(* The open-monitor scheduler (run_open_monitor_scheduler.py).  An instant *)
(* is a day number and a second of that day; day 0 is a Friday, so         *)
(* days 1 and 2 are a weekend.  Clock readings are whole seconds.          *)

MaxStartDay == 3       \* the scheduler is started on one of the days 0..MaxStartDay
MaxSchedDay == 4       \* the loop is followed while the clock is on a day <= MaxSchedDay
WhileFuel == 2         \* iterations of the inner while loop that are followed
SearchDays == 370      \* range(370) of _next_trading_day

HMS(h, m, sec) == h * 3600 + m * 60 + sec
At(day, tod) == [d |-> day, s |-> tod]
NoInstant == [d |-> -1, s |-> 0]
DaySeconds == HMS(24, 0, 0)

Before(a, b) == a.d < b.d \/ (a.d = b.d /\ a.s < b.s)
PlusSeconds(a, n) ==
    LET tot == a.s + n IN At(a.d + (tot \div DaySeconds), tot % DaySeconds)

weekday(day) == (day + 4) % 7

TRADING_WINDOWS ==
    << [start |-> HMS(9, 20, 0), end |-> HMS(11, 35, 0)],
       [start |-> HMS(12, 50, 0), end |-> HMS(15, 10, 0)] >>

_next_run_at(now, interval_min) ==
    LET second == now.s % 60
        minute == (now.s \div 60) % 60
        hour == now.s \div 3600
        next_minute == (minute \div interval_min) * interval_min + interval_min
    IN  IF second = 0 /\ minute % interval_min = 0 THEN now
        ELSE IF next_minute < 60 THEN At(now.d, HMS(hour, next_minute, 0))
        ELSE PlusSeconds(At(now.d, HMS(hour, 0, 0)), 3600)

_in_trading_window(ts) ==
    \E i \in 1..Len(TRADING_WINDOWS) :
        TRADING_WINDOWS[i].start <= ts.s /\ ts.s <= TRADING_WINDOWS[i].end

(* load_trading_calendar answers with the exchange calendar (the weekdays  *)
(* that are no holiday) or fails, and then the weekday rule decides.       *)
_is_trading_day(cal, day) ==
    IF cal.loaded THEN weekday(day) < 5 /\ day \notin cal.holidays
    ELSE weekday(day) < 5

RECURSIVE NextTradingDayFrom(_, _, _, _)
NextTradingDayFrom(cal, day, cur, left) ==
    IF left = 0 THEN day
    ELSE IF _is_trading_day(cal, cur) THEN cur
    ELSE NextTradingDayFrom(cal, day, cur + 1, left - 1)

_next_trading_day(cal, day) == NextTradingDayFrom(cal, day, day, SearchDays)

RECURSIVE NextTradingStartFrom(_, _, _, _)
NextTradingStartFrom(cal, ts, today, i) ==
    IF i > Len(TRADING_WINDOWS)
    THEN At(_next_trading_day(cal, today + 1), TRADING_WINDOWS[1].start)
    ELSE IF ts.s < TRADING_WINDOWS[i].start THEN At(today, TRADING_WINDOWS[i].start)
    ELSE IF ts.s <= TRADING_WINDOWS[i].end THEN ts
    ELSE NextTradingStartFrom(cal, ts, today, i + 1)

_next_trading_start(cal, ts) ==
    NextTradingStartFrom(cal, ts, _next_trading_day(cal, ts.d), 1)

(* the inner while of main: run_at is moved on until it is in a window *)
RECURSIVE WhileNotInWindow(_, _, _, _)
WhileNotInWindow(cal, run_at, interval_min, fuel) ==
    IF _in_trading_window(run_at) \/ fuel = 0 THEN run_at
    ELSE WhileNotInWindow(cal,
             _next_run_at(_next_trading_start(cal, PlusSeconds(run_at, 60 * interval_min)),
                          interval_min),
             interval_min, fuel - 1)

(* run_at of one pass of the main loop that reads the clock at now *)
RunAt(cal, now, interval_min) ==
    LET first == _next_run_at(now, interval_min)
        moved == IF _in_trading_window(first) THEN first
                 ELSE _next_run_at(_next_trading_start(cal, first), interval_min)
    IN  WhileNotInWindow(cal, moved, interval_min, WhileFuel)

StartTimes ==
    { HMS(8, 0, 0), HMS(9, 20, 0), HMS(9, 58, 30), HMS(11, 35, 30), HMS(11, 58, 30),
      HMS(15, 8, 0), HMS(15, 10, 30), HMS(16, 0, 0), HMS(23, 58, 30) }
IntervalSet == {5, 30}
CalendarSet ==
    {[loaded |-> FALSE, holidays |-> {}]} \cup
    {[loaded |-> TRUE, holidays |-> h] : h \in {{}, {3}}}
(* what one pass takes beyond its trigger: a quick run, a slow run, or the *)
(* machine being suspended until the next afternoon                        *)
ElapsedSet == {1, 90, HMS(27, 0, 0)}

InitSched ==
    /\ fam = "sched"
    /\ params \in ParamSet("sched")
    /\ lib \in LibSet("sched")
    /\ chip_table = <<>>
    /\ df = <<>>
    /\ out = NoResult
    /\ quotes = NotStarted
    /\ registry = NotStarted
    /\ \E day \in 0..MaxStartDay, tod \in StartTimes, n \in IntervalSet, cal \in CalendarSet :
         sched = [kind |-> "running", now |-> At(day, tod), interval_min |-> n,
                  calendar |-> cal, ts |-> NoInstant, next_start |-> NoInstant,
                  trigger_at |-> NoInstant]

(* One pass of `while True` in main: read the clock, settle run_at, sleep  *)
(* until run_at, trigger runner.run(checked_at=run_at), sleep 0.2 s.       *)
LoopPass ==
    /\ sched.kind = "running"
    /\ sched.now.d <= MaxSchedDay
    /\ LET cal == sched.calendar
           n == sched.interval_min
           first == _next_run_at(sched.now, n)
           run_at == RunAt(cal, sched.now, n)
           woke == IF Before(sched.now, run_at) THEN run_at ELSE sched.now
       IN  \E elapsed \in ElapsedSet :
             sched' = [sched EXCEPT
                         !.ts = IF _in_trading_window(first) THEN NoInstant ELSE first,
                         !.next_start = IF _in_trading_window(first) THEN NoInstant
                                        ELSE _next_trading_start(cal, first),
                         !.trigger_at = run_at,
                         !.now = PlusSeconds(woke, elapsed)]
    /\ UNCHANGED <<fam, params, lib, chip_table, df, out, quotes, registry>>

NextSched == LoopPass
SpecSched == InitSched /\ [][NextSched]_vars

-----------------------------------------------------------------------------
(* OpenMonitorMarketData.fetch_quotes (open_monitor_market_data.py).  A    *)
(* frame of quotes is a sequence of rows; 0 stands for a value _to_float   *)
(* gives as None or 0.0, both of which the checks treat as false.          *)

MaxQuoteCodes == 3     \* the call asks for the first 0..MaxQuoteCodes codes

QuoteCodeOrder == <<"sh.600000", "sz.000001", "sz.300750", "sh.688981", "bj.430047">>
QuoteCodes(n) == [i \in 1..n |-> QuoteCodeOrder[i]]

Quote(c, amt, vol, high, low) ==
    [code |-> c, live_amount |-> amt, live_volume |-> vol, live_high |-> high, live_low |-> low]

(* VWAP outside [low * 0.999, high * 1.001], compared without dividing *)
is_dirty(row) ==
    /\ row.live_amount # 0
    /\ row.live_volume > 0
    /\ IF row.live_high # 0 /\ row.live_amount * 1000 > row.live_high * 1001 * row.live_volume
       THEN TRUE
       ELSE row.live_low # 0 /\ row.live_amount * 1000 < row.live_low * 999 * row.live_volume

RowCodes(frame) == {frame[i].code : i \in 1..Len(frame)}
dirty_codes(frame) == {frame[i].code : i \in {j \in 1..Len(frame) : is_dirty(frame[j])}}

(* the quotes the feed may hold for a code: clean, VWAP above the high,    *)
(* VWAP below the low, no volume yet, no high yet                          *)
FirstQuotes(c) ==
    { Quote(c, 1000, 100, 11, 9), Quote(c, 1200, 100, 11, 9), Quote(c, 800, 100, 11, 9),
      Quote(c, 1200, 0, 11, 9), Quote(c, 1200, 100, 0, 9) }
RetryQuotes(c) == { Quote(c, 1000, 100, 11, 9), Quote(c, 1200, 100, 11, 9) }

(* _fetch_batch(batch_codes): the feed answers with at most one row for    *)
(* each code asked, in the order asked; it may leave codes out.            *)
RECURSIVE FetchBatch(_, _)
FetchBatch(batch_codes, quotes_of) ==
    IF batch_codes = <<>> THEN {<<>>}
    ELSE LET rest == FetchBatch(Tail(batch_codes), quotes_of)
         IN  rest \cup {<<q>> \o r : q \in quotes_of[Head(batch_codes)], r \in rest}

(* lines 57-98: the frame after the dirty-data check and the retry *)
MergeRetry(first, retry_df) ==
    IF first = <<>> \/ dirty_codes(first) = {} \/ retry_df = <<>> THEN first
    ELSE SelectSeq(first, LAMBDA row : row.code \notin dirty_codes(first)) \o retry_df

InitQuotes ==
    /\ fam = "quotes"
    /\ params \in ParamSet("quotes")
    /\ lib \in LibSet("quotes")
    /\ chip_table = <<>>
    /\ df = <<>>
    /\ out = NoResult
    /\ sched = NotStarted
    /\ registry = NotStarted
    /\ \E n \in 0..MaxQuoteCodes :
         quotes = [kind |-> "asked", codes |-> QuoteCodes(n), first |-> <<>>,
                   retry_df |-> <<>>, result |-> <<>>]

(* fetch_quotes(codes): the first fetch, the check, at most one retry for  *)
(* the dirty codes, the merge.  An empty list of codes returns at once.    *)
FetchQuotes ==
    /\ quotes.kind = "asked"
    /\ LET codes == quotes.codes
           asked == [c \in {codes[i] : i \in 1..Len(codes)} |-> FirstQuotes(c)]
       IN  \E first \in FetchBatch(codes, asked) :
             LET again == SelectSeq(first, is_dirty)
                 dirty == [i \in 1..Len(again) |-> again[i].code]
                 answers == [c \in dirty_codes(first) |-> RetryQuotes(c)]
             IN  \E retry_df \in IF dirty = <<>> THEN {<<>>} ELSE FetchBatch(dirty, answers) :
                   quotes' = [quotes EXCEPT !.kind = "returned", !.first = first,
                                            !.retry_df = retry_df,
                                            !.result = MergeRetry(first, retry_df)]
    /\ UNCHANGED <<fam, params, lib, chip_table, df, out, sched, registry>>

NextQuotes == FetchQuotes
SpecQuotes == InitQuotes /\ [][NextQuotes]_vars

-----------------------------------------------------------------------------
(* The strategy factory (strategies/factory.py).  _STRATEGY_REGISTRY is a  *)
(* dict from names to classes: a function whose domain is the set of keys. *)

MaxRegisterCalls == 3  \* register_strategy calls that are followed

StrategyNames == {"ma5_ma20_trend", "ma_wyckoff", "chip_filter"}
RegisteredNames == {"ma5_ma20_trend", "ma_wyckoff"}
StrategyClasses == {"TrendStrategy", "TrendStrategyV2"}
StrategyParams == {"default", "tuned"}

EmptyRegistry == [n \in {} |-> ""]

(* a registration that keeps the class already stored under the name *)
register_strategy_keep(table, name, cls) ==
    [n \in DOMAIN table \cup {name} |-> IF n \in DOMAIN table THEN table[n] ELSE cls]

(* _STRATEGY_REGISTRY[name] = cls *)
register_strategy(table, name, cls) ==
    [n \in DOMAIN table \cup {name} |-> IF n = name THEN cls ELSE table[n]]

(* what create_strategy(name, params) gives back *)
create_strategy(table, name, p) ==
    IF name \notin DOMAIN table
    THEN [kind |-> "raised", error |-> "ValueError", name |-> name]
    ELSE [kind |-> "instance", cls |-> table[name], params |-> p, name |-> name]

InitRegistry ==
    /\ fam = "registry"
    /\ params \in ParamSet("registry")
    /\ lib \in LibSet("registry")
    /\ chip_table = <<>>
    /\ df = <<>>
    /\ out = NoResult
    /\ sched = NotStarted
    /\ quotes = NotStarted
    /\ registry = [kind |-> "loaded", table |-> EmptyRegistry, calls |-> <<>>,
                   created |-> [kind |-> "none"]]

(* @register_strategy(name) applied to a class; calls is the history of    *)
(* the registrations made so far                                           *)
RegisterStrategy ==
    /\ registry.kind = "loaded"
    /\ Len(registry.calls) < MaxRegisterCalls
    /\ \E name \in RegisteredNames, cls \in StrategyClasses :
         registry' = [registry EXCEPT
                        !.table = register_strategy(registry.table, name, cls),
                        !.calls = Append(registry.calls, [name |-> name, cls |-> cls])]
    /\ UNCHANGED <<fam, params, lib, chip_table, df, out, sched, quotes>>

(* create_strategy(name, params): the registry is read, never written *)
CreateStrategy ==
    /\ registry.kind = "loaded"
    /\ \E name \in StrategyNames, p \in StrategyParams :
         registry' = [registry EXCEPT !.created = create_strategy(registry.table, name, p)]
    /\ UNCHANGED <<fam, params, lib, chip_table, df, out, sched, quotes>>

NextRegistry == RegisterStrategy \/ CreateStrategy
SpecRegistry == InitRegistry /\ [][NextRegistry]_vars

-----------------------------------------------------------------------------
(* Properties.  A property reads the records generate_signals returned and *)
(* restates the conditions of its claim on their columns.                  *)

OutRows == IF out.kind = "frame" THEN out.rows ELSE <<>>
OutIdx == 1..Len(OutRows)

(* The signal a row has before the Wyckoff override and the quality gate *)
PreSignal(i) ==
    InitialSignal(HardGate(OutRows[i], params), base_sell(OutRows, i),
                  base_reduce(OutRows, i), base_buy(OutRows, i))

(* The hard-gate conditions as the specification lists them *)
GateFlag(r) ==
    \/ r.close = NaN \/ r.ma5 = NaN \/ r.ma20 = NaN
    \/ r.one_word_limit_up = 1
    \/ r.env_gate_action \in {"STOP", "ALLOW_NONE", "stop", "allow_none"}
    \/ params.min_daily_amount > 0 /\ (r.amount = NaN \/ r.amount < params.min_daily_amount)

(* The 5-bar index return of row i, NaN when it is not defined *)
IndexRet5(i) == RollSum(IndexRetCol(OutRows), OutRows, i, 5, 5)

(* The threshold with a strict boundary and with the boundary included *)
ThresholdStrict(i) == IF IndexRet5(i) # NaN /\ IndexRet5(i) < -200 THEN 0 ELSE -3000
ThresholdInclusive(i) == IF IndexRet5(i) # NaN /\ IndexRet5(i) <= -200 THEN 0 ELSE -3000

(* C1: every record has final_cap in [0, 0.8]; final_cap is 0 unless the   *)
(* signal is BUY or BUY_CONFIRM, and for those it is                       *)
(* clip(0.5 + 0.1 * quality_score, 0, 0.8).                                *)
C1_FinalCapRange ==
    \A i \in OutIdx :
        LET r == OutRows[i]
        IN  /\ r.final_cap >= 0 /\ r.final_cap <= 8000
            /\ r.signal \notin {"BUY", "BUY_CONFIRM"} => r.final_cap = 0
            /\ r.signal \in {"BUY", "BUY_CONFIRM"} =>
                 r.final_cap = Clip(5000 + r.quality_score, 0, 8000)

(* A BUY record whose quality 8.5 is clipped to 0.8 next to a non-buy      *)
(* record with cap 0                                                       *)
C1_Witness ==
    /\ \E i \in OutIdx :
         OutRows[i].signal = "BUY" /\ OutRows[i].quality_score = 8500
         /\ OutRows[i].final_cap = 8000
    /\ \E i \in OutIdx : OutRows[i].signal = "HOLD" /\ OutRows[i].final_cap = 0

(* C2: a DISTRIBUTION bar with a SOW event has final signal SELL and       *)
(* final_cap 0, whatever its signal was before the override.               *)
C2_SowForcesSell ==
    \A i \in OutIdx :
        is_sow(OutRows[i]) => OutRows[i].signal = "SELL" /\ OutRows[i].final_cap = 0

(* A DISTRIBUTION and SOW bar that was a BUY before the override *)
C2_Witness ==
    \E i \in OutIdx :
        is_sow(OutRows[i]) /\ PreSignal(i) = "BUY" /\ OutRows[i].signal = "SELL"

(* C3 as amended: a dead-cross bar on which no hard-gate condition holds   *)
(* has final signal SELL, whatever its quality_score.                      *)
C3_DeadCrossSellsUnlessGated ==
    \A i \in OutIdx :
        LET r == OutRows[i]
        IN  dead_cross(r) /\ ~GateFlag(r) => r.signal = "SELL"

(* A dead-cross bar without gate and with the lowest quality, sold *)
C3_Witness ==
    \E i \in OutIdx :
        LET r == OutRows[i]
        IN  dead_cross(r) /\ ~GateFlag(r) /\ r.quality_score = -4000 /\ r.signal = "SELL"

(* C3 as stated: every dead-cross bar has final signal SELL regardless of  *)
(* every other condition on the bar.                                       *)
C3_AsStated ==
    \A i \in OutIdx : dead_cross(OutRows[i]) => OutRows[i].signal = "SELL"

(* C4: a bar on which a hard-gate condition holds and which is not a       *)
(* DISTRIBUTION and SOW bar has final signal HOLD and final_cap 0, even    *)
(* when a base buy, reduce or sell condition holds on it.                  *)
C4_HardGateHolds ==
    \A i \in OutIdx :
        LET r == OutRows[i]
        IN  GateFlag(r) /\ ~is_sow(r) => r.signal = "HOLD" /\ r.final_cap = 0

(* A gated bar with a sell condition, and a gated bar with a buy condition, *)
(* both held                                                                *)
C4_Witness ==
    /\ \E i \in OutIdx :
         LET r == OutRows[i]
         IN  GateFlag(r) /\ ~is_sow(r) /\ base_sell(OutRows, i) /\ r.signal = "HOLD"
    /\ \E i \in OutIdx :
         LET r == OutRows[i]
         IN  GateFlag(r) /\ ~is_sow(r) /\ base_buy(OutRows, i) /\ r.signal = "HOLD"

(* C5: no record has signal BUY with quality_score at or under the         *)
(* threshold in force on its bar; the row is WAIT instead, and its reason  *)
(* is the reason it had with the low-quality marker appended.              *)
C5_NoLowQualityBuy ==
    \A i \in OutIdx :
        LET r == OutRows[i]
            thresh == dynamic_thresh(index_ret_5d(OutRows, i))
        IN  /\ ~(r.signal = "BUY" /\ r.quality_score <= thresh)
            /\ PreSignal(i) = "BUY" /\ ~is_sow(r) /\ r.quality_score <= thresh =>
                 /\ r.signal = "WAIT"
                 /\ r.reason = <<IF cross_up(r) THEN "GOLDEN_CROSS" ELSE "WATCH",
                                 "LOW_QUALITY_ENV">>

(* A BUY stopped with quality equal to the threshold 0.0 of a weak         *)
(* environment, its golden-cross reason kept in front of the marker        *)
C5_Witness ==
    \E i \in OutIdx :
        LET r == OutRows[i]
        IN  /\ PreSignal(i) = "BUY" /\ r.signal = "WAIT"
            /\ r.quality_score = 0
            /\ r.reason = <<"GOLDEN_CROSS", "LOW_QUALITY_ENV">>

C7_OneRecordPerPair ==
    out # NoResult =>
        /\ out.kind = "frame"
        /\ \A j \in 1..Len(df) :
             Cardinality({i \in OutIdx : OutRows[i].code = df[j].code
                                         /\ OutRows[i].date = df[j].date}) = 1
        /\ Len(OutRows) = Len(df)

(* The bars of row i's code in the result *)
BarsOfCode(i) == Cardinality({j \in OutIdx : OutRows[j].code = OutRows[i].code})

(* C8 as amended: every bar of a code that has fewer bars than the largest *)
(* window (long_ma_window) has phase NONE.                                 *)
C8_ShortHistoryPhaseNone ==
    \A i \in OutIdx :
        BarsOfCode(i) < long_ma_window => OutRows[i].wyckoff_phase = "NONE"

(* A code with one bar less than the largest window, phase NONE on a bar   *)
(* that is a BUY                                                           *)
C8_Witness ==
    \E i \in OutIdx :
        /\ BarsOfCode(i) = long_ma_window - 1
        /\ OutRows[i].wyckoff_phase = "NONE"
        /\ OutRows[i].signal = "BUY"

(* C8 as stated: every bar of such a code has phase NONE and final signal  *)
(* HOLD.                                                                   *)
C8_AsStated ==
    \A i \in OutIdx :
        BarsOfCode(i) < long_ma_window =>
            OutRows[i].wyckoff_phase = "NONE" /\ OutRows[i].signal = "HOLD"

(* The conditions of C9 on row i: the close rises, ma5 crosses above ma20, *)
(* trend_ok, ATR14 > 0, no hard-gate condition                             *)
C9_Case(i) ==
    LET r == OutRows[i]
    IN  /\ i > 1 /\ OutRows[i - 1].code = r.code
        /\ r.close # NaN /\ OutRows[i - 1].close # NaN /\ r.close > OutRows[i - 1].close
        /\ r.ma5 # NaN /\ r.ma20 # NaN /\ r.ma5 > r.ma20
        /\ r.prev_ma5 # NaN /\ r.prev_ma20 # NaN /\ r.prev_ma5 <= r.prev_ma20
        /\ r.ma250 # NaN /\ r.close > r.ma250 /\ r.ma20 > r.ma250
        /\ r.atr14 # NaN /\ r.atr14 > 0
        /\ ~GateFlag(r)

(* C9 as amended: on such a bar, when no sell condition holds and the bar  *)
(* is not a DISTRIBUTION and SOW bar, the final signal is BUY if the       *)
(* quality_score is above the threshold in force and WAIT otherwise.       *)
C9_CrossUpBuysAboveThreshold ==
    \A i \in OutIdx :
        LET r == OutRows[i]
        IN  C9_Case(i) /\ ~base_sell(OutRows, i) /\ ~is_sow(r) =>
              r.signal = IF r.quality_score > ThresholdStrict(i) THEN "BUY" ELSE "WAIT"

(* Such a bar with quality -4.0, turned into WAIT *)
C9_Witness ==
    \E i \in OutIdx :
        /\ C9_Case(i) /\ ~base_sell(OutRows, i) /\ ~is_sow(OutRows[i])
        /\ OutRows[i].quality_score = -4000
        /\ OutRows[i].signal = "WAIT"

(* C9 as stated: on such a bar the final signal is BUY or BUY_CONFIRM. *)
C9_AsStated ==
    \A i \in OutIdx : C9_Case(i) => OutRows[i].signal \in {"BUY", "BUY_CONFIRM"}

(* C10: a bar whose signal before the quality gate is SELL, REDUCE or HOLD *)
(* keeps that signal for every quality_score; only a BUY can change, and   *)
(* only into WAIT.                                                         *)
C10_QualityOnlyStopsBuy ==
    \A i \in OutIdx :
        LET r == OutRows[i]
            before == IF is_sow(r) THEN "SELL" ELSE PreSignal(i)
        IN  /\ before \in {"SELL", "REDUCE", "HOLD"} => r.signal = before
            /\ before = "BUY" => r.signal \in {"BUY", "WAIT"}

(* A dead-cross bar without gate and with quality +8.5 that stays SELL *)
C10_Witness ==
    \E i \in OutIdx :
        LET r == OutRows[i]
        IN  /\ dead_cross(r) /\ ~GateFlag(r)
            /\ PreSignal(i) = "SELL" /\ r.quality_score = 8500 /\ r.signal = "SELL"

-----------------------------------------------------------------------------
(* Relations between evaluations: the same frame twice, a frame and its     *)
(* prefixes, a batch and one of its codes alone.                            *)

(* The SignalRecord of a result row *)
SignalRecord(r) ==
    [code |-> r.code, date |-> r.date, signal |-> r.signal, reason |-> r.reason,
     risk_tag |-> r.risk_tag, quality_score |-> r.quality_score,
     final_cap |-> r.final_cap]

Records(o) ==
    IF o.kind = "frame" THEN [i \in 1..Len(o.rows) |-> SignalRecord(o.rows[i])] ELSE <<>>

(* generate_signals on a frame when the chip query answers from the table *)
Evaluate(frame) ==
    GenerateSignalsOf(frame, FetchChipData(chip_table, frame), params, lib.pct_change_pad)

(* C11: evaluating the same bars with the same configuration again yields *)
(* the same SignalRecords as the evaluation before.                       *)
C11_SameInputSameRecords ==
    [][(out # NoResult /\ df' = df /\ params' = params) => Records(out') = Records(out)]_vars

(* What the classifier and the combiner derive for one bar *)
Derived(r) ==
    [phase |-> r.wyckoff_phase, event |-> r.wyckoff_event, action |-> r.action,
     signal |-> r.signal,
     quality_score |-> r.quality_score, final_cap |-> r.final_cap]

(* C12: what is derived for bar t of a code is what is derived for it when *)
(* the bars of the code after t are removed (same chip table, query        *)
(* answered both times).                                                   *)
C12_NoLookahead ==
    (fam # "batch" /\ out = Evaluate(df) /\ out.kind = "frame") =>
        \A t \in 1..Len(df) :
            LET upto == Evaluate(SubSeq(df, 1, t))
            IN  upto.kind = "frame" => Derived(upto.rows[t]) = Derived(OutRows[t])

(* The rows of one code *)
OfCode(rows, c) ==
    LET is(r) == r.code = c
    IN  SelectSeq(rows, is)

(* C13: the SignalRecords of a code in a batch are the SignalRecords of   *)
(* that code evaluated alone (same chip table, query answered both times). *)
C13_CodesIndependent ==
    (out = Evaluate(df) /\ out.kind = "frame") =>
        \A c \in Codes(fam) :
            LET alone == Evaluate(OfCode(df, c))
            IN  (OfCode(df, c) # <<>> /\ alone.kind = "frame") =>
                    OfCode(Records(out), c) = Records(alone)

-----------------------------------------------------------------------------
(* The reason column *)

HasTag(reason, tag) == \E k \in 1..Len(reason) : reason[k] = tag

(* C14: a record whose signal was decided by a triggered sell condition   *)
(* (dead cross, hard stop, trailing stop, stagnation) carries more than   *)
(* the default reason, and the reason recorded for a golden-cross buy is  *)
(* still part of the reason after the SOW override.                       *)
C14_ReasonAccumulates ==
    \A i \in OutIdx :
        LET r == OutRows[i]
        IN  /\ (PreSignal(i) = "SELL" /\ r.signal = "SELL") => r.reason # <<"WATCH">>
            /\ (PreSignal(i) = "BUY" /\ cross_up(r)) => HasTag(r.reason, "GOLDEN_CROSS")

-----------------------------------------------------------------------------
(* The classifier's phase and action *)

(* C15: on every bar where the ACCUMULATION conditions hold the phase is *)
(* ACCUMULATION, also when the DISTRIBUTION conditions hold as well.     *)
C15_AccumulationFirst ==
    \A i \in OutIdx :
        acc_base(OutRows[i]) => OutRows[i].wyckoff_phase = "ACCUMULATION"

(* The conditions of the action list on a result row, in the order of the *)
(* list, and their choices                                                *)
ActionRules(r) ==
    <<r.death_cross,
      r.wyckoff_phase = "DISTRIBUTION" /\ event_sow(r),
      r.wyckoff_phase = "DISTRIBUTION" /\ event_upthrust(r),
      r.wyckoff_phase = "ACCUMULATION" /\ event_spring(r),
      r.wyckoff_phase = "ACCUMULATION" /\ event_sos(r),
      r.golden_cross /\ is_confirmed_bottom(r),
      r.golden_cross,
      r.trend_bullish /\ signal_reduce(r)>>

ActionChoices ==
    <<"SELL", "SELL", "REDUCE", "BUY_STRONG", "BUY_LIGHT", "BUY_STRONG", "BUY_LIGHT", "REDUCE">>

(* C16: the action of a bar is the choice of the first condition of the *)
(* list that holds on it, HOLD when none holds; a later condition never *)
(* decides a bar on which an earlier one holds.                         *)
C16_ActionFirstMatch ==
    \A i \in OutIdx :
        LET r == OutRows[i]
            rules == ActionRules(r)
        IN  /\ \A k \in 1..Len(rules) :
                  (rules[k] /\ \A j \in 1..(k - 1) : ~rules[j]) => r.action = ActionChoices[k]
            /\ (\A k \in 1..Len(rules) : ~rules[k]) => r.action = "HOLD"

(* A golden-cross bar in a bullish trend with a bearish divergence: the *)
(* golden cross, earlier in the list, decides and the action is a buy   *)
C16_Witness ==
    \E i \in OutIdx :
        LET r == OutRows[i]
        IN  /\ r.golden_cross /\ ~is_confirmed_bottom(r)
            /\ r.trend_bullish /\ signal_reduce(r)
            /\ ~r.death_cross /\ r.wyckoff_event = ""
            /\ r.action = "BUY_LIGHT"

-----------------------------------------------------------------------------
(* The terms of quality_score *)

(* C17: the quality_score of a bar includes w_wyckoff times the score of *)
(* the action the classifier computed for that bar.                      *)
C17_ScoreOfAction ==
    \A i \in OutIdx :
        LET r == OutRows[i]
        IN  r.quality_score = Quality(OutRows, i) - wyckoff_term(r)
                              + w_wyckoff * WYCKOFF_SCORE_MAP(r.action)

(* The terms of quality_score other than the sector-rotation term *)
QualityWithoutBoard(i) ==
    LET r == OutRows[i]
    IN  chip_factor(r) + wyckoff_term(r) + engulf_term(r)
        + rs_factor(OutRows, i) + resilient_bonus(r) + dist_factor(r) + acc_factor(r)
        + trend_up_factor(r) + rsi_factor(r) + rps_factor(r)
        + acceleration_bonus(r) + chase_penalty(r)

(* C18 as amended: the sector-rotation term adds exactly +4.0 when       *)
(* rotation_phase is leader or leading, +2.0 when it is improving and 0  *)
(* otherwise, independently of every other term.                         *)
C18_BoardTermDoubled ==
    \A i \in OutIdx :
        LET r == OutRows[i]
            term == IF r.rotation_phase \in {"leader", "leading"} THEN 4000
                    ELSE IF r.rotation_phase = "improving" THEN 2000
                    ELSE 0
        IN  r.quality_score = QualityWithoutBoard(i) + term

(* A leader bar, 4.0 above the neutral bar with the same other fields *)
C18_Witness ==
    \E i \in OutIdx :
        LET r == OutRows[i]
        IN  /\ r.rotation_phase = "leader"
            /\ QualityWithoutBoard(i) = -1500
            /\ r.quality_score = 2500

(* C18 as stated: +2.0 for leader or leading, +1.0 for improving. *)
C18_AsStated ==
    \A i \in OutIdx :
        LET r == OutRows[i]
            term == IF r.rotation_phase \in {"leader", "leading"} THEN 2000
                    ELSE IF r.rotation_phase = "improving" THEN 1000
                    ELSE 0
        IN  r.quality_score = QualityWithoutBoard(i) + term

(* C19: with an optional field missing (or ma250 zero) the quality_score *)
(* is what it is without the term that depends on the field.             *)
C19_MissingIsNeutral ==
    \A i \in OutIdx :
        LET r == OutRows[i]
            q == Quality(OutRows, i)
        IN  /\ (IsNa(r.rps_50) \/ IsNa(r.ma250) \/ r.ma250 = 0) =>
                    r.quality_score = q - rps_factor(r)
            /\ IsNa(r.rsi14) => r.quality_score = q - rsi_factor(r)
            /\ IsNa(r.chip_score) => r.quality_score = q - chip_factor(r)
            /\ IsNa(r.ma20_bias) => r.quality_score = q - chase_penalty(r)

-----------------------------------------------------------------------------
(* The hard stop *)

(* close < ma20 - (stop_buffer_atr * ATR14 + 0.005 * ma20), as stated *)
StopLine(r) ==
    /\ NotNa(r.close) /\ NotNa(r.ma20) /\ NotNa(r.atr14)
    /\ 1000 * r.close < 1000 * r.ma20 - (10 * stop_buffer_atr * r.atr14 + min_stop_pct * r.ma20)

-----------------------------------------------------------------------------
(* Completion *)

(* C21: on a frame that carries its OHLCV columns the evaluation never *)
(* raises and returns one record per bar.                              *)
C21_CompletesOnEveryFrame ==
    out # NoResult => (out # Raised /\ Len(OutRows) = Len(df))

-----------------------------------------------------------------------------
(* The order of the base signals *)

(* C22: on a bar without hard gate and without the SOW override, base_sell *)
(* gives SELL, else base_reduce gives REDUCE, and BUY or WAIT occurs       *)
(* exactly when base_buy holds and neither of the two does; a REDUCE       *)
(* record never coincides with a dead cross or a hard stop.                *)
C22_SellReduceBuyOrder ==
    \A i \in OutIdx :
        LET r == OutRows[i]
            sell == base_sell(OutRows, i)
            reduce == base_reduce(OutRows, i)
            buy == base_buy(OutRows, i)
        IN  /\ (~GateFlag(r) /\ ~is_sow(r)) =>
                  /\ sell => r.signal = "SELL"
                  /\ (~sell /\ reduce) => r.signal = "REDUCE"
                  /\ r.signal \in {"BUY", "WAIT"} <=> (buy /\ ~sell /\ ~reduce)
            /\ r.signal = "REDUCE" => (~dead_cross(r) /\ ~hard_stop(r))

(* A bar under its averages on which the pullback buy holds too: REDUCE *)
C22_Witness ==
    \E i \in OutIdx :
        LET r == OutRows[i]
        IN  /\ ~GateFlag(r) /\ ~is_sow(r)
            /\ base_reduce(OutRows, i) /\ buy_pullback(OutRows, i)
            /\ ~base_sell(OutRows, i)
            /\ r.signal = "REDUCE"

-----------------------------------------------------------------------------
(* risk_tag *)

TagOrder ==
    <<"DATA_MISSING_ATR", "DATA_MISSING_INDEX", "DATA_MISSING_AMOUNT",
      "LOW_LIQUIDITY", "PRICE_TOO_HIGH">>

(* The condition of a diagnostic on a result row *)
TagHolds(r, tag) ==
    CASE tag = "DATA_MISSING_ATR" -> r.atr14 = NaN
      [] tag = "DATA_MISSING_INDEX" -> r.index_ret = NaN
      [] tag = "DATA_MISSING_AMOUNT" -> params.min_daily_amount > 0 /\ r.amount = NaN
      [] tag = "LOW_LIQUIDITY" ->
           params.min_daily_amount > 0 /\ r.amount # NaN /\ r.amount < params.min_daily_amount
      [] OTHER -> r.close # NaN /\ r.close > params.max_stock_price

(* A result with its risk tags blanked *)
Untagged(o) ==
    IF o.kind = "frame"
    THEN [i \in 1..Len(o.rows) |-> [o.rows[i] EXCEPT !.risk_tag = <<>>]]
    ELSE <<>>

(* C23: the risk_tag of a record lists every diagnostic whose condition  *)
(* holds on the bar, none dropped, and the price ceiling changes nothing *)
(* but risk_tag: with the ceiling out of reach the records are the same  *)
(* in every other column.                                                *)
C23_TagsAppendedNotScored ==
    /\ \A i \in OutIdx :
          LET r == OutRows[i]
              holds(tag) == TagHolds(r, tag)
          IN  r.risk_tag = SelectSeq(TagOrder, holds)
    /\ \A chip \in {FetchChipData(chip_table, df), <<>>} :
          (df # <<>> /\ out = GenerateSignalsOf(df, chip, params, lib.pct_change_pad)) =>
              Untagged(out) =
                Untagged(GenerateSignalsOf(df, chip,
                                           [params EXCEPT !.max_stock_price = DefaultMaxStockPrice],
                                           lib.pct_change_pad))

(* A bar over the ceiling without ATR: both tags, in order, and the signal *)
(* the bar has under any ceiling                                          *)
C23_Witness ==
    /\ \E i \in OutIdx :
         /\ OutRows[i].close > params.max_stock_price
         /\ OutRows[i].risk_tag = <<"DATA_MISSING_ATR", "PRICE_TOO_HIGH">>
         /\ OutRows[i].signal = "REDUCE"

-----------------------------------------------------------------------------
(* Events on positive prices *)

(* Every bar of the code of row i, up to i, has positive high and low *)
PositiveSoFar(i) ==
    \A j \in 1..i :
        OutRows[j].code = OutRows[i].code =>
            (OutRows[j].high # NaN /\ OutRows[j].high > 0
             /\ OutRows[j].low # NaN /\ OutRows[j].low > 0)

(* C24: on a bar of a series with positive highs and lows the high does  *)
(* not exceed box_high by breakout_pct nor the low fall under box_low by *)
(* it, wyckoff_event is empty, the action comes from the cross and trend *)
(* rules alone and a SELL is not the SOW override.                       *)
C24_NoEventOnPositivePrices ==
    \A i \in OutIdx :
        LET r == OutRows[i]
        IN  PositiveSoFar(i) =>
              /\ ~(r.box_high # NaN /\ 1000 * r.high > r.box_high * (1000 + breakout_pct))
              /\ ~(r.box_low # NaN /\ 1000 * r.low < r.box_low * (1000 - breakout_pct))
              /\ r.wyckoff_event = ""
              /\ r.action = (IF r.death_cross THEN "SELL"
                             ELSE IF r.golden_cross /\ is_confirmed_bottom(r) THEN "BUY_STRONG"
                             ELSE IF r.golden_cross THEN "BUY_LIGHT"
                             ELSE IF r.trend_bullish /\ signal_reduce(r) THEN "REDUCE"
                             ELSE "HOLD")
              /\ r.signal = "SELL" => PreSignal(i) = "SELL"

(* A positive bar that sets a new low of its box on a volume spike: no *)
(* event                                                              *)
C24_Witness ==
    \E i \in OutIdx \ {1} :
        LET r == OutRows[i]
        IN  /\ PositiveSoFar(i)
            /\ r.box_low # NaN /\ r.low = r.box_low /\ r.low < OutRows[i - 1].low
            /\ vol_spike(r)
            /\ r.wyckoff_event = ""

-----------------------------------------------------------------------------
(* The buffer of the classifier's death cross *)

ShortBelowLong(r) == r.ma_short_sum # NaN /\ r.ma_long_sum # NaN
                     /\ r.ma_short_sum * ma_long < r.ma_long_sum * ma_short

(* short_ma moves from >= long_ma to < long_ma on the bar *)
CrossesBelow(r) ==
    /\ ShortBelowLong(r)
    /\ r.prev_short_sum # NaN /\ r.prev_long_sum # NaN
    /\ r.prev_short_sum * ma_long >= r.prev_long_sum * ma_short

(* long_ma - short_ma exceeds 0.2 * ATR14 (a missing ATR14 counts as 0) *)
GapExceedsBuffer(r) ==
    /\ ShortBelowLong(r)
    /\ 10 * (r.ma_long_sum * ma_short - r.ma_short_sum * ma_long)
         > death_cross_atr_buffer * (IF r.atr14 = NaN THEN 0 ELSE r.atr14) * ma_short * ma_long

(* C25: when short_ma crosses below long_ma on bar t and the gap exceeds *)
(* the buffer on a bar u >= t of the same run of bars with short_ma      *)
(* under long_ma, death_cross (action SELL) is reported on a bar of t..u *)
C25_BufferOnlyDelays ==
    \A t \in OutIdx : \A u \in OutIdx :
        (/\ t <= u
         /\ OutRows[t].code = OutRows[u].code
         /\ CrossesBelow(OutRows[t])
         /\ \A k \in t..u : ShortBelowLong(OutRows[k])
         /\ GapExceedsBuffer(OutRows[u]))
        => \E k \in t..u : OutRows[k].death_cross /\ OutRows[k].action = "SELL"

-----------------------------------------------------------------------------
(* The signals produced *)

C27_TriggersOnTradingDays ==
    (sched.kind = "running" /\ sched.trigger_at # NoInstant) =>
        /\ _in_trading_window(sched.trigger_at)
        /\ _is_trading_day(sched.calendar, sched.trigger_at.d)

(* The earliest instant >= ts inside a trading window of a trading day. *)
EarliestTradingInstant(cal, ts) ==
    LET open_day == _next_trading_day(cal, ts.d)
        later == {i \in 1..Len(TRADING_WINDOWS) : ts.s <= TRADING_WINDOWS[i].end}
        i0 == CHOOSE i \in later : \A j \in later : i <= j
    IN  IF open_day # ts.d THEN At(open_day, TRADING_WINDOWS[1].start)
        ELSE IF later = {}
             THEN At(_next_trading_day(cal, ts.d + 1), TRADING_WINDOWS[1].start)
        ELSE IF TRADING_WINDOWS[i0].start <= ts.s THEN ts
        ELSE At(ts.d, TRADING_WINDOWS[i0].start)

(* C28: _next_trading_start(ts) is the earliest instant >= ts that lies    *)
(* inside a trading window on a trading day: ts itself when it is inside   *)
(* a window of a trading day, otherwise the start of the next window of    *)
(* the next trading day, the 09:20 window first after a non-trading day.   *)
C28_NextStartIsEarliest ==
    (sched.kind = "running" /\ sched.ts # NoInstant) =>
        sched.next_start = EarliestTradingInstant(sched.calendar, sched.ts)

RowsOfCode(frame, c) == Cardinality({i \in 1..Len(frame) : frame[i].code = c})

(* C29: the dirty-data retry never loses a quote: every code that had a    *)
(* row after the first fetch has exactly one row in the returned frame,    *)
(* whatever subset of the dirty codes the retry returns.                   *)
C29_RetryKeepsEveryQuote ==
    quotes.kind = "returned" =>
        \A c \in RowCodes(quotes.first) : RowsOfCode(quotes.result, c) = 1

RegistrationsOf(calls, name) == {i \in 1..Len(calls) : calls[i].name = name}
LastRegistered(calls, name) ==
    calls[CHOOSE i \in RegistrationsOf(calls, name) :
              \A j \in RegistrationsOf(calls, name) : j <= i].cls

(* C30: after any sequence of register_strategy calls, create_strategy     *)
(* returns an instance of the class most recently registered under the     *)
(* name; for a name never registered it raises ValueError; either way the  *)
(* registry is left as it was.                                             *)
C30_CreateUsesLatestRegistration ==
    [][(registry.kind = "loaded" /\ registry'.calls = registry.calls) =>
          LET made == registry'.created
          IN  /\ registry'.table = registry.table
              /\ made.kind # "none" =>
                   IF RegistrationsOf(registry.calls, made.name) = {}
                   THEN made.kind = "raised" /\ made.error = "ValueError"
                   ELSE /\ made.kind = "instance"
                        /\ made.cls = LastRegistered(registry.calls, made.name)]_vars

C30_Witness ==
    /\ registry.kind = "loaded"
    /\ registry.created.kind = "instance"
    /\ \E i, j \in RegistrationsOf(registry.calls, registry.created.name) :
         i < j /\ registry.calls[i].cls # registry.calls[j].cls
    /\ registry.created.cls = LastRegistered(registry.calls, registry.created.name)

====
